---- MODULE Spec2Model ----
(***************************************************************************)
(* Model of the article pipeline of the Telegram bot repository:           *)
(*   utils.py  parse_deepseek_result, fetch_webpage_content,               *)
(*             analyze_content, init_google_sheets,                        *)
(*             get_or_create_worksheet, update_google_sheet,               *)
(*             process_article                                             *)
(*   main.py   main                                                        *)
(*   bot.py    handle_message                                              *)
(*                                                                         *)
(* Python strings are sequences of tokens.  The three labels of the        *)
(* response grammar are single tokens, " " is whitespace and "\n" a line   *)
(* break.  The article text, which the code only measures, cuts and        *)
(* extends, is a record of lengths.  Python values whose truthiness the    *)
(* code tests carry their kind (None, str, tuple, dict).                   *)
(***************************************************************************)
EXTENDS Integers, Sequences, FiniteSets, TLC

\* ------------------------------------------------------------------ bounds
\* Number of entry-point invocations in one behaviour.
MaxRuns == 1
\* Number of direct calls of one function of utils.py in one behaviour.
MaxCalls == 3
\* Number of seconds the wall clock may advance in one behaviour.
MaxTicks == 1
\* Number of lines of a response text given to parse_deepseek_result.
MaxLines == 4

\* --------------------------------------------------------------- constants
MAX_RETRIES == 3
MAX_CONTENT_LENGTH == 50000
\* Seconds in a calendar day: strftime's date part changes every 86400 s.
SecondsPerDay == 86400

\* The processes that may run an entry point.
Procs == {1, 2}
\* The processes of the specifications whose calls do not overlap.
SeqProcs == {1}

\* ------------------------------------------------------------------ tokens
SP == " "
NL == "\n"
LSubject == "Chu de:"
LTitle == "Tieu de:"
LSummary == "Tom tat:"
Labels == {LSubject, LTitle, LSummary}

NoInfo == <<"Khong co thong tin">>
NoTitle == <<"Khong co tieu de">>

\* --------------------------------------------------------- string helpers
\* str.strip() on a token string: drop leading and trailing whitespace.
RECURSIVE LStrip(_)
LStrip(s) ==
    IF s # <<>> /\ Head(s) \in {SP, NL} THEN LStrip(Tail(s)) ELSE s

RECURSIVE RStrip(_)
RStrip(s) ==
    IF s # <<>> /\ s[Len(s)] \in {SP, NL}
    THEN RStrip(SubSeq(s, 1, Len(s) - 1))
    ELSE s

Strip(s) == RStrip(LStrip(s))

\* str.startswith(label) for a one-token label.
StartsWith(line, label) == line # <<>> /\ Head(line) = label

\* str.splitlines(): the lines between line breaks; a final line break
\* opens no further line, the empty string has no line.
RECURSIVE SplitFrom(_, _)
SplitFrom(text, cur) ==
    IF text = <<>> THEN (IF cur = <<>> THEN <<>> ELSE <<cur>>)
    ELSE IF Head(text) = NL THEN <<cur>> \o SplitFrom(Tail(text), <<>>)
    ELSE SplitFrom(Tail(text), Append(cur, Head(text)))

SplitLines(text) == SplitFrom(text, <<>>)

\* ------------------------------------------------- parse_deepseek_result
NoSection == "none"
EmptySections == [l \in Labels |-> <<>>]

\* A label line: current_section = label; sections[label] = the rest of
\* the line, stripped.
\* (a variant in which a label line empties the sections that come after
\* it in the order subject, title, summary)
OpenSectionRestart(st, label, line) ==
    [sections |->
        [l \in Labels |->
            IF l = label THEN Strip(Tail(line))
            ELSE IF label = LSubject \/ (label = LTitle /\ l = LSummary)
                 THEN <<>>
                 ELSE st.sections[l]],
     current |-> label]

OpenSection(st, label, line) ==
    [sections |-> [st.sections EXCEPT ![label] = Strip(Tail(line))],
     current |-> label]

\* Any other line: if current_section and line:
\*                     sections[current_section] += ' ' + line
\* (a variant that puts the lines before the first label into the summary)
ContinueSectionOrSummary(st, line) ==
    IF line # <<>>
    THEN [st EXCEPT !.sections[IF st.current # NoSection THEN st.current
                                ELSE LSummary] = @ \o <<SP>> \o line]
    ELSE st

\* (a variant that joins the lines without the space)
ContinueSectionUnspaced(st, line) ==
    IF st.current # NoSection /\ line # <<>>
    THEN [st EXCEPT !.sections[st.current] = @ \o line]
    ELSE st

ContinueSection(st, line) ==
    IF st.current # NoSection /\ line # <<>>
    THEN [st EXCEPT !.sections[st.current] = @ \o <<SP>> \o line]
    ELSE st

\* One iteration of the loop over the lines; st = [sections, current].
ParseLine(st, rawline) ==
    LET line == Strip(rawline) IN
    IF StartsWith(line, LSubject) THEN OpenSection(st, LSubject, line)
    ELSE IF StartsWith(line, LTitle) THEN OpenSection(st, LTitle, line)
    ELSE IF StartsWith(line, LSummary) THEN OpenSection(st, LSummary, line)
    ELSE ContinueSection(st, line)

RECURSIVE ParseLines(_, _)
ParseLines(st, lines) ==
    IF lines = <<>> THEN st
    ELSE ParseLines(ParseLine(st, Head(lines)), Tail(lines))

Keys == {"subject", "title", "summary"}

\* (a variant of parse_deepseek_result without the strip() of the return)
parse_deepseek_result_unstripped(result_text) ==
    LET st == ParseLines([sections |-> EmptySections, current |-> NoSection],
                         SplitLines(result_text))
    IN [k \in Keys |->
          IF k = "subject" THEN st.sections[LSubject]
          ELSE IF k = "title" THEN st.sections[LTitle]
          ELSE st.sections[LSummary]]

parse_deepseek_result(result_text) ==
    LET st == ParseLines([sections |-> EmptySections, current |-> NoSection],
                         SplitLines(result_text))
    IN [k \in Keys |->
          IF k = "subject" THEN Strip(st.sections[LSubject])
          ELSE IF k = "title" THEN Strip(st.sections[LTitle])
          ELSE Strip(st.sections[LSummary])]

\* ---------------------------------------------------------- Python values
None == [kind |-> "none"]
Str(s) == [kind |-> "str", s |-> s]
Tuple(items) == [kind |-> "tuple", items |-> items]
Dict(m) == [kind |-> "dict", map |-> m]
\* An article text: the first n characters of a text of src characters,
\* followed by dots marker characters.
Text(src, n, dots) == [kind |-> "text", src |-> src, n |-> n, dots |-> dots]

TextLen(t) == t.n + t.dots

\* bool(v): None, the empty string, the empty tuple and the empty dict
\* are false, everything else is true.
Truthy(v) ==
    CASE v.kind = "none" -> FALSE
      [] v.kind = "str" -> v.s # <<>>
      [] v.kind = "text" -> TextLen(v) > 0
      [] v.kind = "tuple" -> v.items # <<>>
      [] v.kind = "dict" -> DOMAIN v.map # {}

EmptyMapping == Dict(<<>>)

\* dict.get(key, default)
Get(map, key, default) == IF key \in DOMAIN map THEN map[key] ELSE default

\* ------------------------------------------------------------- the inputs
\* What the user submits: a URL and a text that is no URL.
Lower(tok) ==
    CASE tok = "HTTP" -> "http"
      [] tok = "HTTPS" -> "https"
      [] OTHER -> tok

Inputs == {<<"HTTPS", "://", "a">>, <<"example.com">>}

\* URL_REGEX = ^https?:// with re.IGNORECASE, applied with match().
URL_REGEX_match(text) ==
    /\ Len(text) >= 2
    /\ Lower(text[1]) \in {"http", "https"}
    /\ text[2] = "://"

\* What a download-and-parse of the page may give: an exception, or an
\* article with its text (lead and trail whitespace characters around body
\* characters) and its title.
BodyLens == {0, 7, MAX_CONTENT_LENGTH, MAX_CONTENT_LENGTH + 1}
ArticleTexts == {[lead |-> w, body |-> b, trail |-> w] :
                    w \in {0, 1}, b \in BodyLens}
ArticleTitles == {<<>>, <<SP, "Headline", SP>>}
RaisingPage == [raises |-> TRUE, text |-> [lead |-> 0, body |-> 0, trail |-> 0],
                title |-> <<>>]
Pages == {RaisingPage} \cup
         {[raises |-> FALSE, text |-> t, title |-> h] :
             t \in ArticleTexts, h \in ArticleTitles}

\* article.text.strip()
StripText(raw) == Text(raw.body, raw.body, 0)

\* content[:k]
Slice(t, k) ==
    [t EXCEPT !.n = IF k < t.n THEN k ELSE t.n,
              !.dots = IF k >= t.n + t.dots THEN t.dots
                       ELSE IF k > t.n THEN k - t.n ELSE 0]

\* content + "..."
AddMarker(t) == [t EXCEPT !.dots = @ + 3]

\* if len(content) > MAX_CONTENT_LENGTH: content = content[:MAX] + "..."
\* (a variant that cuts a text of exactly MAX_CONTENT_LENGTH characters too)
LimitContentAtCap(content) ==
    IF TextLen(content) >= MAX_CONTENT_LENGTH
    THEN AddMarker(Slice(content, MAX_CONTENT_LENGTH))
    ELSE content

LimitContent(content) ==
    IF TextLen(content) > MAX_CONTENT_LENGTH
    THEN AddMarker(Slice(content, MAX_CONTENT_LENGTH))
    ELSE content

\* article.title.strip() if article.title else "Khong co tieu de"
RealTitle(title) == IF title # <<>> THEN Strip(title) ELSE NoTitle

\* for attempt in range(MAX_RETRIES): this iteration is the last one
\* (a variant with one iteration more)
LastAttemptOneMore(attempt) == attempt + 1 >= MAX_RETRIES + 1

LastAttempt(attempt) == attempt + 1 >= MAX_RETRIES

\* What one chat-completion request may give: a transport-level error
\* (requests.RequestException), a body without choices[0].message.content,
\* or a body whose content is one of these texts.
Responses ==
    { <<LSubject, SP, "sport", NL, LTitle, SP, "ModelTitle", NL,
        LSummary, SP, "short", NL, "more">>,
      <<LSummary, SP, "short", NL, LSubject, SP, "sport">> }
ApiOutcomes ==
    {[kind |-> "transport_error", text |-> <<>>],
     [kind |-> "malformed", text |-> <<>>]} \cup
    {[kind |-> "ok", text |-> r] : r \in Responses}

\* ------------------------------------------------------ the spreadsheet
headers == <<<<"Chu de">>, <<"Tieu de">>, <<"Tom tat">>, <<"Link bai bao">>,
             <<"Timestamp">>>>

\* datetime.now().strftime("%Y-%m-%d %H:%M:%S"): the date and the time of day
Timestamp(now) == <<now \div SecondsPerDay, now % SecondsPerDay>>
\* datetime.now().strftime('%Y%m%d'): the date
DateOf(now) == now \div SecondsPerDay

\* worksheet.row_values(1): the cells of the first row up to its last
\* non-empty cell; no cell at all for a sheet without rows.
RECURSIVE TrimRow(_)
TrimRow(row) ==
    IF row # <<>> /\ Len(row[Len(row)]) = 0
    THEN TrimRow(SubSeq(row, 1, Len(row) - 1))
    ELSE row

row_values_1(rows) == IF rows = <<>> THEN <<>> ELSE TrimRow(rows[1])

\* worksheet.append_row(row): the row goes after the last row.
\* (a variant that skips a row whose link is in the sheet already)
append_row_unless_known(rows, row) ==
    IF \E i \in 1..Len(rows) : rows[i][4] = row[4] THEN rows
    ELSE Append(rows, row)

worksheet_append_row(rows, row) == Append(rows, row)

\* The row update_google_sheet builds from its arguments and the timestamp.
new_row(data, url, timestamp) ==
    << Get(data, "subject", NoInfo),
       Get(data, "title", NoInfo),
       Get(data, "summary", NoInfo),
       url, timestamp >>

\* ------------------------------------------------------------- the state
VARIABLES
    proc,       \* per process: the position and the locals of its run
    wsExists,   \* the spreadsheet has a first worksheet
    sheet,      \* the rows of the first worksheet, in order
    backup,     \* the lines appended to backup files, in order of writing
    clock,      \* the wall clock, in seconds
    runs,       \* the number of invocations started
    journal     \* the calls of update_google_sheet that have ended

vars == <<proc, wsExists, sheet, backup, clock, runs, journal>>

NoTimestamp == <<>>
NoDate == DateOf(0) - 1

\* A process that runs nothing.  fetchLog and reqLog record the outcome of
\* each download attempt and of each chat-completion request of the run;
\* sheetWrites and backupWrites count the rows and the lines the run wrote;
\* sinkCalls counts its calls of update_google_sheet; failedAt is the step
\* that failed with an exception.
IdleProc ==
    [pc |-> "idle", entry |-> "none", url |-> <<>>, attempt |-> 0,
     content |-> None, real_title |-> None, analysis |-> None,
     first_row |-> <<>>, timestamp |-> NoTimestamp, backup_file |-> NoDate,
     fetchLog |-> <<>>, reqLog |-> <<>>, sheetWrites |-> 0,
     backupWrites |-> 0, sinkCalls |-> 0, outcome |-> "none",
     failedAt |-> "none"]

ClockStart == SecondsPerDay - 1

Init ==
    /\ proc = [p \in Procs |-> IdleProc]
    /\ wsExists \in BOOLEAN
    /\ sheet = <<>>
    /\ backup = <<>>
    /\ clock = ClockStart
    /\ runs = 0
    /\ journal = [returned |-> <<>>, raised |-> 0]

\* No call is in progress.
Quiet == \A p \in Procs : proc[p].pc \in {"idle", "done"}

\* ------------------------------------------------- how a call ends
\* The function returns to the code outside the model.
Return(pr, how) == [pr EXCEPT !.pc = "done", !.outcome = how]

\* An exception leaves the function the process is in.  main catches it,
\* prints it and exits with status 1; handle_message catches it, logs it
\* and replies with it; from the functions of utils.py it reaches the caller.
\* (a variant that swallows the exception: the function returns normally)
RaiseSwallowed(pr) == Return([pr EXCEPT !.failedAt = pr.pc], "returned")

Raise(pr) ==
    LET at == [pr EXCEPT !.failedAt = pr.pc] IN
    CASE pr.entry = "main" -> Return(at, "exit")
      [] pr.entry = "handle_message" -> Return(at, "error_reply")
      [] OTHER -> Return(at, "raised")

\* update_google_sheet(analysis, url) is called.
CallSink(pr) ==
    [pr EXCEPT !.pc = "init_google_sheets", !.sinkCalls = @ + 1]

\* analyze_content(content) is called: empty content raises ValueError,
\* otherwise the request loop starts.
CallAnalyze(pr) ==
    IF ~Truthy(pr.content)
    THEN Raise(pr)
    ELSE [pr EXCEPT !.pc = "analyze_content", !.attempt = 0]

\* analysis['title'] = real_title
SetTitle(analysis, real_title) ==
    Dict([k \in DOMAIN analysis.map \cup {"title"} |->
            IF k = "title" THEN real_title.s ELSE analysis.map[k]])

\* fetch_webpage_content returns result to its caller, which goes on.
AfterFetch(pr, result) ==
    LET got == [pr EXCEPT !.content = result] IN
    CASE pr.entry = "main" ->
            IF ~Truthy(result) THEN Return(got, "exit") ELSE CallAnalyze(got)
      [] pr.entry = "handle_message" ->
            IF ~Truthy(result) THEN Return(got, "returned")
            ELSE CallAnalyze(got)
      [] OTHER -> Return(got, "returned")

\* return {}: what analyze_content returns after its last failed request
\* (a variant that returns None)
ExhaustedResultNone == None

ExhaustedResult == EmptyMapping

\* analyze_content returns result to its caller, which goes on.
AfterAnalyze(pr, result) ==
    LET got == [pr EXCEPT !.analysis = result] IN
    CASE pr.entry = "main" -> CallSink(got)
      [] pr.entry = "handle_message" ->
            IF ~Truthy(result) THEN Return(got, "returned") ELSE CallSink(got)
      [] pr.entry = "process_article" ->
            IF ~Truthy(result) THEN Return(got, "returned")
            ELSE CallSink([got EXCEPT
                             !.analysis = SetTitle(result, pr.real_title)])
      [] OTHER -> Return(got, "returned")

\* update_google_sheet returns to its caller, which reports and returns.
AfterSink(pr) == Return(pr, "returned")

Set(p, pr) == proc' = [proc EXCEPT ![p] = pr]

\* A process is free to start an invocation.
Free(p) == proc[p].pc \in {"idle", "done"}

Begin(entry, url, pc) ==
    [IdleProc EXCEPT !.entry = entry, !.url = url, !.pc = pc]

\* ------------------------------------------------------- entry points
\* main.py: main(), up to the call of fetch_webpage_content(url).
main(p) ==
    /\ Free(p)
    /\ runs < MaxRuns
    /\ \E url \in Inputs :
          Set(p, Begin("main", url, "fetch_webpage_content"))
    /\ runs' = runs + 1
    /\ UNCHANGED <<wsExists, sheet, backup, clock, journal>>

\* bot.py: handle_message(), up to the call of fetch_webpage_content.
handle_message(p) ==
    /\ Free(p)
    /\ runs < MaxRuns
    /\ \E text \in Inputs :
          LET user_text == Strip(text) IN
          IF ~URL_REGEX_match(user_text)
          THEN Set(p, Return(Begin("handle_message", user_text, "idle"),
                             "rejected"))
          ELSE Set(p, Begin("handle_message", user_text,
                            "fetch_webpage_content"))
    /\ runs' = runs + 1
    /\ UNCHANGED <<wsExists, sheet, backup, clock, journal>>

\* utils.py: process_article(url), up to its extraction loop.
process_article(p) ==
    /\ Free(p)
    /\ runs < MaxRuns
    /\ \E url \in Inputs :
          Set(p, Begin("process_article", url, "process_article_fetch"))
    /\ runs' = runs + 1
    /\ UNCHANGED <<wsExists, sheet, backup, clock, journal>>

\* ----------------------------------------------- fetch_webpage_content
\* One iteration of the loop of fetch_webpage_content with what follows it:
\* the return to the caller, or the sleep and the next iteration.
fetch_webpage_content(p) ==
    LET pr == proc[p] IN
    /\ pr.pc = "fetch_webpage_content"
    /\ \E page \in Pages :
          LET content == StripText(page.text)
              ok == ~page.raises /\ Truthy(content)
              how == IF page.raises THEN "raise"
                     ELSE IF ~Truthy(content) THEN "empty" ELSE "ok"
              logged == [pr EXCEPT !.fetchLog = Append(@, how)]
          IN IF ok
             THEN Set(p, AfterFetch(logged,
                        Tuple(<<LimitContent(content),
                                Str(RealTitle(page.title))>>)))
             ELSE IF LastAttempt(pr.attempt)
             THEN Set(p, AfterFetch(logged, Tuple(<<None, None>>)))
             ELSE Set(p, [logged EXCEPT !.attempt = @ + 1])
    /\ UNCHANGED <<wsExists, sheet, backup, clock, runs, journal>>

\* One iteration of the extraction loop of process_article with what
\* follows it.  content and real_title are assigned before the test for an
\* empty text and keep their values over a failed iteration.
process_article_fetch(p) ==
    LET pr == proc[p] IN
    /\ pr.pc = "process_article_fetch"
    /\ \E page \in Pages :
          LET content == StripText(page.text)
              ok == ~page.raises /\ Truthy(content)
              how == IF page.raises THEN "raise"
                     ELSE IF ~Truthy(content) THEN "empty" ELSE "ok"
              logged == [pr EXCEPT !.fetchLog = Append(@, how)]
              assigned == IF page.raises THEN logged
                          ELSE [logged EXCEPT
                                  !.content = IF ok THEN LimitContent(content)
                                              ELSE content,
                                  !.real_title = Str(RealTitle(page.title))]
          IN IF ok \/ LastAttempt(pr.attempt)
             THEN IF ~Truthy(assigned.content)
                  THEN Set(p, Return(assigned, "returned"))
                  ELSE Set(p, CallAnalyze(assigned))
             ELSE Set(p, [assigned EXCEPT !.attempt = @ + 1])
    /\ UNCHANGED <<wsExists, sheet, backup, clock, runs, journal>>

\* ----------------------------------------------------- analyze_content
\* except requests.RequestException: the failures of a request that the
\* loop catches and retries.
\* (a variant that catches every exception)
RetriedAny(kind) == kind # "ok"

Retried(kind) == kind = "transport_error"

\* One iteration of the request loop of analyze_content with what follows.
analyze_content(p) ==
    LET pr == proc[p] IN
    /\ pr.pc = "analyze_content"
    /\ \E resp \in ApiOutcomes :
          LET logged == [pr EXCEPT !.reqLog = Append(@, resp)] IN
          CASE resp.kind = "ok" ->
                  Set(p, AfterAnalyze(logged,
                            Dict(parse_deepseek_result(resp.text))))
            [] Retried(resp.kind) ->
                  IF LastAttempt(pr.attempt)
                  THEN Set(p, AfterAnalyze(logged, ExhaustedResult))
                  ELSE Set(p, [logged EXCEPT !.attempt = @ + 1])
            [] OTHER -> Set(p, Raise(logged))
    /\ UNCHANGED <<wsExists, sheet, backup, clock, runs, journal>>

\* ------------------------------------------------- update_google_sheet
\* The journal of the calls of update_google_sheet: when a step ends the
\* call, the call is added with its arguments and its timestamp if it
\* returned, and counted if it raised.
Journal(p) ==
    journal' =
        IF proc'[p].pc # "done" THEN journal
        ELSE IF proc'[p].failedAt # "none"
        THEN [journal EXCEPT !.raised = @ + 1]
        ELSE [journal EXCEPT !.returned =
                Append(@, [data |-> proc[p].analysis.map, url |-> proc[p].url,
                           timestamp |-> proc[p].timestamp])]

\* What init_google_sheets may meet.
InitOutcomes == {"ok", "no_credentials_file", "bad_credentials",
                 "no_spreadsheet_id", "open_failed"}

\* spreadsheet = init_google_sheets()
init_google_sheets(p) ==
    LET pr == proc[p] IN
    /\ pr.pc = "init_google_sheets"
    /\ \E res \in InitOutcomes :
          IF res = "ok"
          THEN Set(p, [pr EXCEPT !.pc = "get_worksheet"])
          ELSE Set(p, Raise(pr))
    /\ Journal(p)
    /\ UNCHANGED <<wsExists, sheet, backup, clock, runs>>

\* get_or_create_worksheet: worksheet = spreadsheet.get_worksheet(0)
get_worksheet(p) ==
    LET pr == proc[p] IN
    /\ pr.pc = "get_worksheet"
    /\ \E fails \in BOOLEAN :
          IF fails THEN Set(p, Raise(pr))
          ELSE IF wsExists THEN Set(p, [pr EXCEPT !.pc = "row_values"])
          ELSE Set(p, [pr EXCEPT !.pc = "add_worksheet"])
    /\ Journal(p)
    /\ UNCHANGED <<wsExists, sheet, backup, clock, runs>>

\* get_or_create_worksheet: worksheet = spreadsheet.add_worksheet(...)
\* The service refuses a second worksheet with the title "Sheet1".
add_worksheet(p) ==
    LET pr == proc[p] IN
    /\ pr.pc = "add_worksheet"
    /\ \E fails \in (IF wsExists THEN {TRUE} ELSE BOOLEAN) :
          IF fails
          THEN Set(p, Raise(pr)) /\ UNCHANGED wsExists
          ELSE Set(p, [pr EXCEPT !.pc = "row_values"]) /\ wsExists' = TRUE
    /\ Journal(p)
    /\ UNCHANGED <<sheet, backup, clock, runs>>

\* The header row is there or written: update_google_sheet takes the
\* timestamp and builds new_row.
TakeTimestamp(pr) ==
    [pr EXCEPT !.pc = "append_row", !.timestamp = Timestamp(clock)]

\* if not first_row: the header is to be written
\* (a variant that writes the header whatever the first row holds)
NeedsHeaderAlways(first_row) == TRUE

NeedsHeader(first_row) == first_row = <<>>

\* get_or_create_worksheet: first_row = worksheet.row_values(1)
row_values(p) ==
    LET pr == proc[p] IN
    /\ pr.pc = "row_values"
    /\ \E fails \in BOOLEAN :
          LET first_row == row_values_1(sheet) IN
          IF fails THEN Set(p, Raise(pr))
          ELSE IF NeedsHeader(first_row)
          THEN Set(p, [pr EXCEPT !.pc = "append_header",
                                 !.first_row = first_row])
          ELSE Set(p, TakeTimestamp([pr EXCEPT !.first_row = first_row]))
    /\ Journal(p)
    /\ UNCHANGED <<wsExists, sheet, backup, clock, runs>>

\* get_or_create_worksheet: worksheet.append_row(headers)
append_header(p) ==
    LET pr == proc[p] IN
    /\ pr.pc = "append_header"
    /\ \E fails \in BOOLEAN :
          IF fails
          THEN Set(p, Raise(pr)) /\ UNCHANGED sheet
          ELSE /\ sheet' = worksheet_append_row(sheet, headers)
               /\ Set(p, TakeTimestamp([pr EXCEPT !.sheetWrites = @ + 1]))
    /\ Journal(p)
    /\ UNCHANGED <<wsExists, backup, clock, runs>>

\* update_google_sheet: worksheet.append_row(new_row), then the name of
\* the backup file is taken from the clock.
append_row(p) ==
    LET pr == proc[p] IN
    /\ pr.pc = "append_row"
    /\ \E fails \in BOOLEAN :
          IF fails
          THEN Set(p, Raise(pr)) /\ UNCHANGED sheet
          ELSE /\ sheet' = worksheet_append_row(sheet,
                              new_row(pr.analysis.map, pr.url, pr.timestamp))
               /\ Set(p, [pr EXCEPT !.pc = "backup_write",
                                    !.sheetWrites = @ + 1,
                                    !.backup_file = DateOf(clock)])
    /\ Journal(p)
    /\ UNCHANGED <<wsExists, backup, clock, runs>>

\* The object update_google_sheet dumps as one line of the backup file.
\* (a variant that reads the clock again for the line's timestamp)
backup_data_restamped(data, url, timestamp) ==
    [timestamp |-> Timestamp(clock),
     analysis |-> data, url |-> url]

backup_data(data, url, timestamp) ==
    [timestamp |-> timestamp, analysis |-> data, url |-> url]

\* update_google_sheet: the line is appended to the backup file; any
\* exception of the call is raised again to the caller.
backup_write(p) ==
    LET pr == proc[p] IN
    /\ pr.pc = "backup_write"
    /\ \E fails \in BOOLEAN :
          IF fails
          THEN Set(p, Raise(pr)) /\ UNCHANGED backup
          ELSE /\ backup' = Append(backup,
                     [file |-> pr.backup_file,
                      line |-> backup_data(pr.analysis.map, pr.url,
                                           pr.timestamp)])
               /\ Set(p, AfterSink([pr EXCEPT !.backupWrites = @ + 1]))
    /\ Journal(p)
    /\ UNCHANGED <<wsExists, sheet, clock, runs>>

\* ------------------------------------- direct calls of the functions
\* What the callers of analyze_content pass, and the empty string.
AnalyzeInputs == {Text(0, 0, 0), Text(7, 7, 0), Tuple(<<None, None>>)}

\* What the callers of update_google_sheet pass: the empty mapping and
\* the results of parse_deepseek_result.
SinkData == {EmptyMapping} \cup
            {Dict(parse_deepseek_result(r)) : r \in Responses}

\* fetch_webpage_content(url) is called.
call_fetch_webpage_content(p) ==
    /\ Free(p)
    /\ runs < MaxCalls
    /\ \E url \in Inputs :
          Set(p, Begin("fetch_webpage_content", url, "fetch_webpage_content"))
    /\ runs' = runs + 1
    /\ UNCHANGED <<wsExists, sheet, backup, clock, journal>>

\* analyze_content(content) is called.
call_analyze_content(p) ==
    /\ Free(p)
    /\ runs < MaxCalls
    /\ \E content \in AnalyzeInputs :
          Set(p, CallAnalyze([Begin("analyze_content", <<>>, "analyze_content")
                                EXCEPT !.content = content]))
    /\ runs' = runs + 1
    /\ UNCHANGED <<wsExists, sheet, backup, clock, journal>>

\* update_google_sheet(data, url) is called.
call_update_google_sheet(p) ==
    /\ Free(p)
    /\ runs < MaxCalls
    /\ \E data \in SinkData, url \in Inputs :
          Set(p, CallSink([Begin("update_google_sheet", url, "idle")
                             EXCEPT !.analysis = data]))
    /\ runs' = runs + 1
    /\ UNCHANGED <<wsExists, sheet, backup, clock, journal>>

\* The lines a response text is made of: a label line with a value, one
\* with no value, one with whitespace around it, lines without a label
\* (one of them with a label inside), and a blank line.
ParseLineChoices ==
    {<<LSubject, SP, "sport">>, <<LTitle>>, <<SP, LSummary, SP, "short", SP>>,
     <<"more">>, <<"see", SP, LTitle>>, <<SP>>}

\* '\n'.join(lines)
RECURSIVE JoinLines(_)
JoinLines(lines) ==
    IF lines = <<>> THEN <<>>
    ELSE IF Len(lines) = 1 THEN lines[1]
    ELSE lines[1] \o <<NL>> \o JoinLines(Tail(lines))

\* The response texts of up to MaxLines lines.
ParseInputs ==
    {JoinLines(lines) :
        lines \in UNION {[1..n -> ParseLineChoices] : n \in 0..MaxLines}}

\* parse_deepseek_result(result_text) runs on the text in content;
\* analysis holds the mapping it returns.
call_parse_deepseek_result(p) ==
    LET pr == proc[p] IN
    /\ pr.pc = "parse_deepseek_result"
    /\ Set(p, Return([pr EXCEPT !.analysis =
                                  Dict(parse_deepseek_result(pr.content.s))],
                     "returned"))
    /\ UNCHANGED <<wsExists, sheet, backup, clock, runs, journal>>

\* The wall clock advances by one second.
Tick ==
    /\ clock < ClockStart + MaxTicks
    /\ clock' = clock + 1
    /\ UNCHANGED <<proc, wsExists, sheet, backup, runs, journal>>

\* ------------------------------------------------------ specifications
\* The steps of the functions of utils.py, whoever called them.
Step(p) ==
    \/ fetch_webpage_content(p)
    \/ process_article_fetch(p)
    \/ analyze_content(p)
    \/ init_google_sheets(p)
    \/ get_worksheet(p)
    \/ add_worksheet(p)
    \/ row_values(p)
    \/ append_header(p)
    \/ append_row(p)
    \/ backup_write(p)

\* The three entry points, one invocation after the other.
Next ==
    \/ \E p \in SeqProcs : Quiet /\ main(p)
    \/ \E p \in SeqProcs : Quiet /\ handle_message(p)
    \/ \E p \in SeqProcs : Quiet /\ process_article(p)
    \/ \E p \in SeqProcs : Step(p)
    \/ Tick

Spec == Init /\ [][Next]_vars

\* Calls of fetch_webpage_content, one after the other.  Every iteration
\* ends: the download times out, the parse and the sleep return.
FetchNext ==
    \/ \E p \in SeqProcs : Quiet /\ call_fetch_webpage_content(p)
    \/ \E p \in SeqProcs : fetch_webpage_content(p)
    \/ Tick

FetchSpec ==
    /\ Init
    /\ [][FetchNext]_vars
    /\ \A p \in SeqProcs : WF_vars(fetch_webpage_content(p))

\* Calls of analyze_content, one after the other.
AnalyzeNext ==
    \/ \E p \in SeqProcs : Quiet /\ call_analyze_content(p)
    \/ \E p \in SeqProcs : analyze_content(p)
    \/ Tick

AnalyzeSpec == Init /\ [][AnalyzeNext]_vars

\* The steps of update_google_sheet.
SinkStep(p) ==
    \/ init_google_sheets(p)
    \/ get_worksheet(p)
    \/ add_worksheet(p)
    \/ row_values(p)
    \/ append_header(p)
    \/ append_row(p)
    \/ backup_write(p)

\* Calls of update_google_sheet that do not overlap.
SinkNext ==
    \/ \E p \in SeqProcs : Quiet /\ call_update_google_sheet(p)
    \/ \E p \in SeqProcs : SinkStep(p)
    \/ Tick

SinkSpec == Init /\ [][SinkNext]_vars

\* One call of parse_deepseek_result on any of the response texts.
ParseInit ==
    /\ \E result_text \in ParseInputs :
          proc = [p \in Procs |->
                    IF p \in SeqProcs
                    THEN [Begin("parse_deepseek_result", <<>>,
                                "parse_deepseek_result")
                            EXCEPT !.content = Str(result_text)]
                    ELSE IdleProc]
    /\ wsExists = FALSE
    /\ sheet = <<>>
    /\ backup = <<>>
    /\ clock = ClockStart
    /\ runs = 0
    /\ journal = [returned |-> <<>>, raised |-> 0]

ParseNext == \E p \in SeqProcs : call_parse_deepseek_result(p)

ParseSpec == ParseInit /\ [][ParseNext]_vars

\* Calls of update_google_sheet that may overlap: the transport runs one
\* pipeline per incoming message, and the functions take no lock.
ConcNext ==
    \/ \E p \in Procs : call_update_google_sheet(p)
    \/ \E p \in Procs : SinkStep(p)

ConcSpec == Init /\ [][ConcNext]_vars

\* ------------------------------------------------------------ properties
EntryPoints == {"main", "handle_message", "process_article"}

\* The run made three download attempts and none gave a text.
AllAttemptsFailed(pr) ==
    /\ Len(pr.fetchLog) = 3
    /\ \A i \in 1..3 : pr.fetchLog[i] # "ok"

\* The run sent three requests and each met a transport-level error.
AllRequestsFailed(pr) ==
    /\ Len(pr.reqLog) = 3
    /\ \A i \in 1..3 : pr.reqLog[i].kind = "transport_error"

\* C1: in main, handle_message and process_article, a run whose three
\* extraction attempts all failed writes no row to the spreadsheet (header
\* or data) and no line to a backup file.
C1_FailedExtractionWritesNothing ==
    \A p \in Procs :
        (proc[p].entry \in EntryPoints /\ AllAttemptsFailed(proc[p]))
            => (proc[p].sheetWrites = 0 /\ proc[p].backupWrites = 0)

\* C2: in main, handle_message and process_article, a run in which
\* analyze_content used up its three attempts and returned the empty
\* mapping never calls update_google_sheet, so it writes neither a row nor
\* a backup line.
C2_FailedAnalysisStopsThePipeline ==
    \A p \in Procs :
        (proc[p].entry \in EntryPoints /\ AllRequestsFailed(proc[p]))
            => /\ proc[p].sinkCalls = 0
               /\ proc[p].sheetWrites = 0
               /\ proc[p].backupWrites = 0

\* The headline the extractor obtained in this run: the second item of the
\* pair fetch_webpage_content returned, or real_title in process_article.
Headline(pr) ==
    IF pr.content.kind = "tuple" THEN pr.content.items[2] ELSE pr.real_title

\* The run has appended its data row, which is the last row of the sheet.
RowAppended(pr) == pr.pc = "backup_write"

\* C3: in main, handle_message and process_article, the title cell of the
\* row the run appends is the headline the extractor obtained, whatever
\* title the model's response held.
C3_PersistedTitleIsTheHeadline ==
    \A p \in SeqProcs :
        (proc[p].entry \in EntryPoints /\ RowAppended(proc[p])
           /\ Headline(proc[p]).kind = "str")
            => sheet[Len(sheet)][2] = Headline(proc[p]).s

\* The cell the sink is to write for a field: the field, or the sentinel
\* when the field is missing or empty.
Defaulted(data, key) ==
    IF Get(data, key, <<>>) = <<>> THEN NoInfo ELSE data[key]

\* C4: the subject, title and summary cells of the row update_google_sheet
\* appends hold the sentinel whenever the field is empty, also when the
\* field is present with the empty string; no empty cell is written.
C4_EmptyFieldsAreDefaulted ==
    \A p \in SeqProcs :
        RowAppended(proc[p]) =>
            LET row == sheet[Len(sheet)]
                data == proc[p].analysis.map
            IN /\ row[1] = Defaulted(data, "subject")
               /\ row[2] = Defaulted(data, "title")
               /\ row[3] = Defaulted(data, "summary")
               /\ \A k \in 1..3 : row[k] # <<>>

\* A row is the header row: its first four cells are the header's (the
\* fifth cell of a data row is a timestamp).
IsHeader(row) == SubSeq(row, 1, 4) = SubSeq(headers, 1, 4)

\* C5: for calls of update_google_sheet that do not overlap, from a
\* worksheet without rows: the sheet is empty or its first row is the
\* header and no other row is; a call that finds a non-empty first row
\* writes no header.
C5_OneHeaderFirst ==
    /\ sheet # <<>> =>
          /\ IsHeader(sheet[1])
          /\ \A i \in 2..Len(sheet) : ~IsHeader(sheet[i])
    /\ \A p \in SeqProcs :
          (proc[p].pc \in {"append_row", "backup_write"}
             /\ proc[p].first_row # <<>>)
              => proc[p].sheetWrites = (IF proc[p].pc = "append_row"
                                        THEN 0 ELSE 1)

\* Two calls have written: the header and two data rows are in the sheet.
C5_Witness ==
    /\ Len(sheet) = 3
    /\ \E p \in SeqProcs :
          proc[p].pc = "backup_write" /\ proc[p].first_row # <<>>

\* The data rows of the sheet, in order.
DataRows == SelectSeq(sheet, LAMBDA row : ~IsHeader(row))

\* C6: when n calls of update_google_sheet that do not overlap have
\* returned and none has raised, the sheet holds n data rows and the backup
\* log n lines, the i-th of each from the i-th call; equal URLs are not
\* merged.
C6_OneRowAndOneLinePerCall ==
    (Quiet /\ journal.raised = 0) =>
        LET n == Len(journal.returned) IN
        /\ Len(DataRows) = n
        /\ Len(backup) = n
        /\ \A i \in 1..n :
              LET call == journal.returned[i] IN
              /\ DataRows[i][4] = call.url
              /\ DataRows[i][5] = call.timestamp
              /\ DataRows[i] = new_row(call.data, call.url, call.timestamp)
              /\ backup[i].line =
                    backup_data(call.data, call.url, call.timestamp)

\* Two calls with the same URL have returned and left two rows, two lines.
C6_Witness ==
    /\ Quiet
    /\ journal.raised = 0
    /\ Len(journal.returned) >= 2
    /\ journal.returned[1].url = journal.returned[2].url
    /\ Len(DataRows) >= 2
    /\ Len(backup) >= 2

\* The steps of update_google_sheet up to the append of the data row.
StepsToAppend == {"init_google_sheets", "get_worksheet", "add_worksheet",
                  "row_values", "append_header", "append_row"}

\* C7: a call of update_google_sheet in which a step up to the append of
\* the data row failed ends by raising to its caller and has written no
\* line to a backup file.
C7_FailureRaisesWithoutBackup ==
    \A p \in SeqProcs :
        (proc[p].entry = "update_google_sheet"
           /\ proc[p].failedAt \in StepsToAppend)
            => /\ proc[p].pc = "done"
               /\ proc[p].outcome = "raised"
               /\ proc[p].backupWrites = 0

\* The append of the data row failed after the header was written.
C7_Witness ==
    \E p \in SeqProcs :
        /\ proc[p].entry = "update_google_sheet"
        /\ proc[p].failedAt = "append_row"
        /\ proc[p].sheetWrites = 1
        /\ proc[p].outcome = "raised"

\* The call of fetch_webpage_content has made its attempts in order: each
\* attempt before the last one failed.
StoppedAtFirstSuccess(log) ==
    \A i \in 1..(Len(log) - 1) : log[i] # "ok"

FailureValue == Tuple(<<None, None>>)

\* What holds of a call of fetch_webpage_content at every moment.
FetchSafe(pr) ==
    /\ Len(pr.fetchLog) <= 3
    /\ StoppedAtFirstSuccess(pr.fetchLog)
    /\ pr.pc = "fetch_webpage_content" =>
          \A i \in 1..Len(pr.fetchLog) : pr.fetchLog[i] # "ok"
    /\ pr.pc = "done" =>
          /\ Len(pr.fetchLog) >= 1
          /\ pr.content = FailureValue <=> AllAttemptsFailed(pr)
          /\ pr.content # FailureValue =>
                /\ pr.fetchLog[Len(pr.fetchLog)] = "ok"
                /\ Truthy(pr.content.items[1])

\* C8: fetch_webpage_content makes at most 3 attempts, makes none after
\* the first that yields a non-empty text, counts an attempt that raises
\* or yields an empty text as failed, returns (None, None) exactly when
\* all 3 attempts failed, and always returns.
C8_FetchRetriesAndTerminates ==
    /\ [](\A p \in SeqProcs : FetchSafe(proc[p]))
    /\ \A p \in SeqProcs :
          (proc[p].pc = "fetch_webpage_content") ~> (proc[p].pc = "done")

\* A call returned the failure value after a raise, an empty text and
\* another raise.
C8_Witness ==
    \E p \in SeqProcs :
        /\ proc[p].pc = "done"
        /\ proc[p].fetchLog = <<"raise", "empty", "raise">>
        /\ proc[p].content = FailureValue

\* What holds of a call of analyze_content with non-empty input.
AnalyzeSafe(pr) ==
    /\ Len(pr.reqLog) <= 3
    /\ \A i \in 1..(Len(pr.reqLog) - 1) :
          pr.reqLog[i].kind = "transport_error"
    /\ (pr.pc = "done" /\ pr.reqLog # <<>>) =>
          LET last == pr.reqLog[Len(pr.reqLog)] IN
          /\ last.kind = "ok" =>
                /\ pr.outcome = "returned"
                /\ pr.analysis = Dict(parse_deepseek_result(last.text))
          /\ last.kind = "transport_error" =>
                /\ Len(pr.reqLog) = 3
                /\ pr.outcome = "returned"
                /\ pr.analysis = Dict(<<>>)

\* C9: for non-empty input, analyze_content sends at most 3 requests,
\* returns the parsed result of the first request that succeeds and sends
\* none after it, and returns the empty mapping, without raising, when all
\* 3 requests met a transport-level error.
C9_AnalyzeRetries ==
    \A p \in SeqProcs :
        (proc[p].entry = "analyze_content" /\ Truthy(proc[p].content))
            => AnalyzeSafe(proc[p])

\* A call returned the empty mapping after three transport-level errors.
C9_Witness ==
    \E p \in SeqProcs :
        /\ proc[p].entry = "analyze_content"
        /\ proc[p].pc = "done"
        /\ AllRequestsFailed(proc[p])
        /\ proc[p].outcome = "returned"
        /\ proc[p].analysis = Dict(<<>>)

\* The texts the extractor has returned: the first item of the pair of
\* fetch_webpage_content, the content of process_article after its loop.
ExtractedTexts ==
    {proc[p].content.items[1] :
        p \in {q \in Procs : /\ proc[q].content.kind = "tuple"
                             /\ proc[q].content.items[1].kind = "text"}}
    \cup
    {proc[p].content :
        p \in {q \in Procs : /\ proc[q].content.kind = "text"
                             /\ proc[q].entry = "process_article"
                             /\ proc[q].pc # "process_article_fetch"
                             /\ Truthy(proc[q].content)}}

\* C10: a text the extractor returns for an article text of src
\* characters is the whole text without marker when src <= 50000, and its
\* first 50000 characters followed by the 3 characters of the marker when
\* src > 50000; it is never longer than 50003 characters.
C10_TextIsCappedWithMarker ==
    \A c \in ExtractedTexts :
        /\ c.src <= 50000 => (c.n = c.src /\ c.dots = 0)
        /\ c.src > 50000 => (c.n = 50000 /\ c.dots = 3)
        /\ TextLen(c) <= 50003

\* The extractor has returned an article text of 50001 characters cut to
\* its first 50000 characters and the marker.
C10_Witness ==
    \E c \in ExtractedTexts : c.src = 50001 /\ c.n = 50000 /\ c.dots = 3
\* ------------------------------------------ parse_deepseek_result
\* A call of parse_deepseek_result that has returned.
Parsed(pr) == pr.entry = "parse_deepseek_result" /\ pr.pc = "done"

\* The lines of the text the call was given.
InputLines(pr) == SplitLines(pr.content.s)

\* The line starts, after stripping, with one of the three labels.
IsLabelLine(rawline) == \E l \in Labels : StartsWith(Strip(rawline), l)

LabelOf(rawline) == CHOOSE l \in Labels : StartsWith(Strip(rawline), l)

LabelLines(lines) == {i \in 1..Len(lines) : IsLabelLine(lines[i])}

\* The text is three labelled sections: it starts with a label line and
\* each label starts exactly one line.
EachLabelOnce(lines) ==
    /\ 1 \in LabelLines(lines)
    /\ \A l \in Labels :
          Cardinality({i \in LabelLines(lines) : LabelOf(lines[i]) = l}) = 1

\* The section that starts at label line i: that line and the lines up to
\* the next label line.
SectionEnd(lines, i) ==
    LET later == {j \in LabelLines(lines) : j > i} IN
    IF later = {} THEN Len(lines)
    ELSE (CHOOSE j \in later : \A k \in later : j <= k) - 1

Section(lines, i) == SubSeq(lines, i, SectionEnd(lines, i))

\* The orders in which the three sections can be written.
SectionOrders(lines) ==
    {ord \in [1..3 -> LabelLines(lines)] :
        \A a, b \in 1..3 : a # b => ord[a] # ord[b]}

Rearranged(lines, ord) ==
    Section(lines, ord[1]) \o Section(lines, ord[2]) \o Section(lines, ord[3])

\* C11: when each of the three labels occurs once, with its own
\* continuation lines, the mapping parse_deepseek_result returned is the
\* one it returns for the text with the sections in any other order.
C11_SectionOrderIsIrrelevant ==
    \A p \in SeqProcs :
        LET pr == proc[p]
            lines == InputLines(pr)
        IN Parsed(pr) /\ EachLabelOnce(lines) =>
              \A ord \in SectionOrders(lines) :
                  parse_deepseek_result(JoinLines(Rearranged(lines, ord)))
                     = pr.analysis.map

\* A text was parsed that starts with the title, has every label once and
\* a continuation line that went into the subject.
C11_Witness ==
    \E p \in SeqProcs :
        LET pr == proc[p]
            lines == InputLines(pr)
        IN /\ Parsed(pr)
           /\ EachLabelOnce(lines)
           /\ LabelOf(lines[1]) = LTitle
           /\ pr.analysis.map["subject"] = <<"sport", SP, "more">>
           /\ pr.analysis.map["summary"] = <<"short">>

\* The lines from the first label line on; none if no line has a label.
FromFirstLabel(lines) ==
    LET at == LabelLines(lines) IN
    IF at = {} THEN <<>>
    ELSE SubSeq(lines, CHOOSE i \in at : \A j \in at : i <= j, Len(lines))

\* C12: parse_deepseek_result returns without an error; a text without a
\* label line gives three empty fields; the lines before the first label
\* line add nothing: the mapping is the one of the text without them.
C12_UnlabelledLinesAddNothing ==
    \A p \in SeqProcs :
        LET pr == proc[p]
            lines == InputLines(pr)
        IN Parsed(pr) =>
              /\ pr.outcome = "returned" /\ pr.failedAt = "none"
              /\ LabelLines(lines) = {} =>
                    \A k \in Keys : pr.analysis.map[k] = <<>>
              /\ pr.analysis.map =
                    parse_deepseek_result(JoinLines(FromFirstLabel(lines)))

\* A text of two lines with words and no label was parsed.
C12_Witness ==
    \E p \in SeqProcs :
        LET pr == proc[p]
            lines == InputLines(pr)
        IN /\ Parsed(pr)
           /\ LabelLines(lines) = {}
           /\ Len(lines) >= 2
           /\ \A i \in 1..Len(lines) : Strip(lines[i]) # <<>>
           /\ \A k \in Keys : pr.analysis.map[k] = <<>>

\* The text with one 'Label: value' line for each field of a mapping.
Reconstruct(map) ==
    <<LSubject, SP>> \o map["subject"] \o <<NL, LTitle, SP>> \o map["title"]
        \o <<NL, LSummary, SP>> \o map["summary"]

\* C13: the mapping parse_deepseek_result returned is the mapping it
\* returns for the text rebuilt from that mapping, one 'Label: value' line
\* for each field.
C13_ReparseOfRebuiltTextIsTheSame ==
    \A p \in SeqProcs :
        LET pr == proc[p] IN
        Parsed(pr) =>
            parse_deepseek_result(Reconstruct(pr.analysis.map))
                = pr.analysis.map

\* A text was parsed whose title is only a continuation line and whose
\* subject has a first line and a continuation line.
C13_Witness ==
    \E p \in SeqProcs :
        LET pr == proc[p]
            lines == InputLines(pr)
        IN /\ Parsed(pr)
           /\ Len(lines) = 4
           /\ lines[1] = <<LTitle>>
           /\ pr.analysis.map["title"] = <<"more">>
           /\ pr.analysis.map["subject"] = <<"sport", SP, "see", SP, LTitle>>

\* The parser's state after the first k lines of a text.
ParsedUpTo(lines, k) ==
    ParseLines([sections |-> EmptySections, current |-> NoSection],
               SubSeq(lines, 1, k))

\* Line k has no label, is not blank, and follows a label line.
IsContinuation(lines, k) ==
    /\ ~IsLabelLine(lines[k])
    /\ Strip(lines[k]) # <<>>
    /\ \E i \in LabelLines(lines) : i < k

\* The label line seen last before line k.
LastLabelBefore(lines, k) ==
    LET before == {i \in LabelLines(lines) : i < k} IN
    CHOOSE i \in before : \A j \in before : j <= i

\* The words of the lines from..to that are not blank, each after one space.
RECURSIVE SpaceJoined(_, _, _)
SpaceJoined(lines, from, to) ==
    IF from > to THEN <<>>
    ELSE (IF Strip(lines[from]) = <<>> THEN <<>>
          ELSE <<SP>> \o Strip(lines[from]))
            \o SpaceJoined(lines, from + 1, to)

\* What the section that starts at label line i holds at the end.
SectionValue(lines, i) ==
    Strip(Strip(Tail(Strip(lines[i])))
            \o SpaceJoined(lines, i + 1, SectionEnd(lines, i)))

KeyOf(label) ==
    IF label = LSubject THEN "subject"
    ELSE IF label = LTitle THEN "title" ELSE "summary"

\* C14: a non-blank line without a label that follows a label line is
\* appended, after one space, to the section of the label seen last and
\* changes no other section; so each returned field is the value of its
\* last label line followed by the lines up to the next label line, in
\* order, one space between them.
C14_ContinuationLinesJoinTheLastLabel ==
    \A p \in SeqProcs :
        LET pr == proc[p]
            lines == InputLines(pr)
        IN Parsed(pr) =>
              /\ \A k \in 1..Len(lines) :
                    IsContinuation(lines, k) =>
                       LET before == ParsedUpTo(lines, k - 1)
                           after == ParsedUpTo(lines, k)
                           label == LabelOf(lines[LastLabelBefore(lines, k)])
                       IN /\ after.sections[label] =
                               before.sections[label] \o <<SP>>
                                   \o Strip(lines[k])
                          /\ \A l \in Labels \ {label} :
                                after.sections[l] = before.sections[l]
              /\ \A i \in LabelLines(lines) :
                    (\A j \in LabelLines(lines) :
                        LabelOf(lines[j]) = LabelOf(lines[i]) => j <= i)
                    => pr.analysis.map[KeyOf(LabelOf(lines[i]))]
                          = SectionValue(lines, i)

\* A text was parsed in which two lines continue the subject and the
\* summary that follows has none.
C14_Witness ==
    \E p \in SeqProcs :
        LET pr == proc[p]
            lines == InputLines(pr)
        IN /\ Parsed(pr)
           /\ Len(lines) = 4
           /\ IsContinuation(lines, 2) /\ IsContinuation(lines, 3)
           /\ pr.analysis.map["subject"] =
                 <<"sport", SP, "see", SP, LTitle, SP, "more">>
           /\ pr.analysis.map["summary"] = <<"short">>
           /\ pr.analysis.map["title"] = <<>>

\* ------------------------------------------------ input validation
\* C15: in a run of main or of handle_message whose input does not match
\* URL_REGEX, fetch_webpage_content is not called: the run is at no step
\* of the pipeline and has made no download attempt, no request and no
\* call of update_google_sheet.
C15_NonUrlIsRejectedBeforeFetch ==
    \A p \in SeqProcs :
        LET pr == proc[p] IN
        pr.entry \in {"main", "handle_message"} /\ ~URL_REGEX_match(pr.url)
        => /\ pr.pc = "done"
           /\ pr.fetchLog = <<>>
           /\ pr.reqLog = <<>>
           /\ pr.sinkCalls = 0

\* ------------------------------------------------ overlapping calls
HeaderRows == {i \in 1..Len(sheet) : IsHeader(sheet[i])}

\* C16: with calls of update_google_sheet that overlap on a worksheet
\* whose first row was empty, the sheet holds at most one header row and
\* no data row comes before a header row.
C16_OneHeaderUnderOverlap ==
    /\ Cardinality(HeaderRows) <= 1
    /\ \A i \in HeaderRows : \A j \in 1..(i - 1) : IsHeader(sheet[j])

\* ------------------------------------------------------ backup file
\* C17: every backup line is in the daily file of the date of its own
\* timestamp, whatever the clock does between the two.
C17_BackupFileHasTheRecordDate ==
    \A i \in 1..Len(backup) :
        backup[i].file = backup[i].line.timestamp[1]

\* The URL and the timestamp of a data row and of a backup line.
RowKey(row) == <<row[4], row[5]>>
LineKey(entry) == <<entry.line.url, entry.line.timestamp>>

\* Each line of lines, in order, has a row of its own in rows with its URL
\* and timestamp.
RECURSIVE EachLineHasItsRow(_, _)
EachLineHasItsRow(lines, rows) ==
    IF lines = <<>> THEN TRUE
    ELSE IF rows = <<>> THEN FALSE
    ELSE IF LineKey(Head(lines)) = RowKey(Head(rows))
         THEN EachLineHasItsRow(Tail(lines), Tail(rows))
         ELSE EachLineHasItsRow(lines, Tail(rows))

\* C18: every backup line has a data row of its own in the sheet with the
\* same URL and timestamp, so there are no more backup lines than data
\* rows; the line a call has written is the line of the row that call
\* appended before it.  (The converse fails: C18_Witness.)
C18_BackupLinesFollowTheirRows ==
    /\ EachLineHasItsRow(backup, DataRows)
    /\ Len(backup) <= Len(DataRows)
    /\ \A p \in SeqProcs :
          LET pr == proc[p] IN
          pr.entry = "update_google_sheet" /\ pr.backupWrites > 0 =>
             /\ pr.sheetWrites > 0
             /\ backup[Len(backup)].line =
                   backup_data(pr.analysis.map, pr.url, pr.timestamp)
             /\ DataRows[Len(DataRows)] =
                   new_row(pr.analysis.map, pr.url, pr.timestamp)

\* One call has written its row and its backup line, and a later call has
\* failed writing its backup line after its row was appended: the sheet
\* holds a row without a backup line.
C18_Witness ==
    /\ Len(backup) >= 1
    /\ Len(DataRows) > Len(backup)
    /\ EachLineHasItsRow(backup, DataRows)
    /\ \E p \in SeqProcs :
          /\ proc[p].failedAt = "backup_write"
          /\ proc[p].backupWrites = 0
          /\ DataRows[Len(DataRows)] =
                new_row(proc[p].analysis.map, proc[p].url, proc[p].timestamp)

\* ------------------------------------------- malformed response body
\* The call's last request got a body without choices[0].message.content.
EndedMalformed(pr) ==
    /\ pr.entry = "analyze_content"
    /\ pr.reqLog # <<>>
    /\ pr.reqLog[Len(pr.reqLog)].kind = "malformed"

\* C19: analyze_content retries after transport errors only.  A body
\* without choices[0].message.content ends the call at that attempt: the
\* exception reaches the caller, no request follows, and nothing, so not
\* the empty mapping, is returned.
C19_MalformedBodyIsNotRetried ==
    \A p \in SeqProcs :
        LET pr == proc[p] IN
        pr.entry = "analyze_content" =>
           /\ \A i \in 1..(Len(pr.reqLog) - 1) :
                 pr.reqLog[i].kind = "transport_error"
           /\ EndedMalformed(pr) =>
                 /\ pr.pc = "done"
                 /\ pr.outcome = "raised"
                 /\ pr.failedAt = "analyze_content"
                 /\ pr.analysis = None

\* A call has ended on a malformed body at its second request, after one
\* transport error, with an attempt left.
C19_Witness ==
    \E p \in SeqProcs :
        /\ EndedMalformed(proc[p])
        /\ Len(proc[p].reqLog) = 2
        /\ proc[p].reqLog[1].kind = "transport_error"
        /\ proc[p].outcome = "raised"
        /\ ~LastAttempt(proc[p].attempt)

====
